---- MODULE Spec2Model ----
(***************************************************************************)
(* SolBridXML2MQTT: the ingestion loop of src/main.rs.                     *)
(*                                                                         *)
(* The process loads its configuration, creates the optional MQTT client   *)
(* (with its background event loop task) and the optional InfluxDB client, *)
(* and then polls the inverter forever: fetch, read body, decode XML,      *)
(* publish every measurement that has a value, collect the numeric ones    *)
(* into one InfluxDB batch, write the batch, compare the error counter     *)
(* with max_errors, sleep.                                                 *)
(*                                                                         *)
(* Strings the code inspects character by character (the value and the     *)
(* unit of a measurement, the payload) are sequences of one-character      *)
(* strings; strings the code only copies (serial, type) are TLA+ strings.  *)
(***************************************************************************)
EXTENDS Integers, Sequences, FiniteSets, TLC

\* ------------------------------------------------------------------------
\* Bounds of the model
\* ------------------------------------------------------------------------

\* largest configured max_errors explored (the field is a u32)
MaxErrorsBound == 3

\* poll cycles explored by the escalation specification
MaxCycles == 4

\* poll cycles explored by the dispatch specification
MaxDispatchCycles == 1

\* ------------------------------------------------------------------------
\* Program constants
\* ------------------------------------------------------------------------

\* capacity of the request channel between AsyncClient and the event loop
RequestCap == 10

\* ------------------------------------------------------------------------
\* Option values
\* ------------------------------------------------------------------------

None == [tag |-> "None"]

Some(v) == [tag |-> "Some", val |-> v]

IsSome(o) == o.tag = "Some"

\* ------------------------------------------------------------------------
\* Strings as character sequences
\* ------------------------------------------------------------------------

Digits == {"0", "1", "2", "3", "4", "5", "6", "7", "8", "9"}

Whitespace == {" ", "\t", "\n", "\r"}

DigitVal(c) ==
    CASE c = "0" -> 0 [] c = "1" -> 1 [] c = "2" -> 2 [] c = "3" -> 3
      [] c = "4" -> 4 [] c = "5" -> 5 [] c = "6" -> 6 [] c = "7" -> 7
      [] c = "8" -> 8 [] c = "9" -> 9

AllDigits(s) == \A i \in 1..Len(s) : s[i] \in Digits

RECURSIVE DigitsToNat(_)
DigitsToNat(s) ==
    IF s = <<>> THEN 0
    ELSE 10 * DigitsToNat(SubSeq(s, 1, Len(s) - 1)) + DigitVal(s[Len(s)])

\* position of the first character of s that is in the set cs, 0 if none
FirstIn(s, cs) ==
    IF \E i \in 1..Len(s) : s[i] \in cs
    THEN CHOOSE i \in 1..Len(s) : s[i] \in cs /\ \A j \in 1..(i - 1) : s[j] \notin cs
    ELSE 0

ToLowerChar(c) ==
    CASE c = "I" -> "i" [] c = "N" -> "n" [] c = "F" -> "f" [] c = "A" -> "a"
      [] c = "T" -> "t" [] c = "Y" -> "y" [] OTHER -> c

ToLower(s) == [i \in 1..Len(s) |-> ToLowerChar(s[i])]

\* str::trim(): drop leading and trailing whitespace
Trim(s) ==
    LET keep == {i \in 1..Len(s) : s[i] \notin Whitespace}
    IN  IF keep = {} THEN <<>>
        ELSE LET lo == CHOOSE i \in keep : \A j \in keep : i <= j
                 hi == CHOOSE i \in keep : \A j \in keep : j <= i
             IN  SubSeq(s, lo, hi)

\* ------------------------------------------------------------------------
\* parse_value: <f64 as FromStr>::from_str(value).ok()
\* ------------------------------------------------------------------------

\* a finite decimal: (-1)^neg * m * 10^e, m without trailing zeros
RECURSIVE Normal(_, _)
Normal(m, e) ==
    IF m = 0 THEN [m |-> 0, e |-> 0]
    ELSE IF m % 10 = 0 THEN Normal(m \div 10, e + 1)
    ELSE [m |-> m, e |-> e]

Finite(neg, m, e) ==
    [kind |-> "finite", neg |-> neg, m |-> Normal(m, e).m, e |-> Normal(m, e).e]

Special(neg, name) == [kind |-> name, neg |-> neg]

\* the exponent part after 'e' / 'E': optional sign, at least one digit
ParseExponent(s) ==
    LET signed == s # <<>> /\ s[1] \in {"+", "-"}
        ds     == IF signed THEN Tail(s) ELSE s
    IN  IF ds = <<>> \/ ~AllDigits(ds) THEN None
        ELSE Some(IF signed /\ s[1] = "-" THEN 0 - DigitsToNat(ds) ELSE DigitsToNat(ds))

\* the mantissa: digits [ '.' digits ], at least one digit overall
ParseMantissa(s) ==
    LET dot  == FirstIn(s, {"."})
        ip   == IF dot = 0 THEN s ELSE SubSeq(s, 1, dot - 1)
        fp   == IF dot = 0 THEN <<>> ELSE SubSeq(s, dot + 1, Len(s))
    IN  IF ~AllDigits(ip) \/ ~AllDigits(fp) \/ (ip = <<>> /\ fp = <<>>) THEN None
        ELSE Some([m |-> DigitsToNat(ip \o fp), e |-> 0 - Len(fp)])

ParseDecimal(neg, s) ==
    LET ePos == FirstIn(s, {"e", "E"})
        ms   == IF ePos = 0 THEN s ELSE SubSeq(s, 1, ePos - 1)
        mant == ParseMantissa(ms)
        expo == IF ePos = 0 THEN Some(0) ELSE ParseExponent(SubSeq(s, ePos + 1, Len(s)))
    IN  IF IsSome(mant) /\ IsSome(expo)
        THEN Some(Finite(neg, mant.val.m, mant.val.e + expo.val))
        ELSE None

\* a value that does not parse taken as 0.0
parse_value_or_zero(value) ==
    IF IsSome(ParseDecimal(FALSE, value)) THEN ParseDecimal(FALSE, value)
    ELSE Some(Finite(FALSE, 0, 0))

parse_value(value) ==
    LET signed == value # <<>> /\ value[1] \in {"+", "-"}
        neg    == signed /\ value[1] = "-"
        body   == IF signed THEN Tail(value) ELSE value
        low    == ToLower(body)
    IN  IF low \in {<<"i", "n", "f">>, <<"i", "n", "f", "i", "n", "i", "t", "y">>}
        THEN Some(Special(neg, "inf"))
        ELSE IF low = <<"n", "a", "n">> THEN Some(Special(neg, "nan"))
        ELSE ParseDecimal(neg, body)

\* ------------------------------------------------------------------------
\* The XML document served by the inverter and its decoding
\* ------------------------------------------------------------------------

\* largest number of Measurement elements in a served document
MaxSamples == 2

\* HTTP status codes the inverter answers with
Statuses == {200, 500}

\* <Measurement Type=".." Value=".."? Unit=".."?/> as served (attributes optional)
Element(typ, value, unit) == [Type |-> typ, Value |-> value, Unit |-> unit]

VoltageElement ==
    Element(Some("Voltage_L1"), Some(<<"2", "3", "0", ".", "5">>), Some(<<"V">>))

StatusElement == Element(Some("Status"), None, None)

ModeElement == Element(Some("Mode"), Some(<<"n", "/", "a">>), None)

PowerElement == Element(Some("Power"), Some(<<"1", "2">>), Some(<<"W">>))

UntypedElement == Element(None, Some(<<"1">>), None)

ValidElements == {VoltageElement, StatusElement, ModeElement, PowerElement}

\* a served body: text that is XML or not, with the attributes it carries
Document(wellformed, name, serial, elements) ==
    [wellformed |-> wellformed, Name |-> name, Serial |-> serial, Measurement |-> elements]

NotXml == Document(FALSE, None, None, <<>>)

NoSerialDocument == Document(TRUE, Some("Inv1"), None, <<VoltageElement>>)

UntypedDocument == Document(TRUE, Some("Inv1"), Some("SN1"), <<VoltageElement, UntypedElement>>)

EmptyDocument == Document(TRUE, Some("Inv1"), Some("SN1"), <<>>)

\* the sequences of 1..n different elements of S
SeqsUpTo(S, n) ==
    UNION {{q \in [1..k -> S] : \A a, b \in 1..k : a # b => q[a] # q[b]} : k \in 1..n}

ValidDocuments ==
    {Document(TRUE, Some("Inv1"), Some("SN1"), es) : es \in SeqsUpTo(ValidElements, MaxSamples)}

BadDocuments == {NotXml, NoSerialDocument, UntypedDocument, EmptyDocument}

\* documents served in the dispatch specification
AllDocuments == ValidDocuments \cup BadDocuments

\* documents served in the escalation specification
FewDocuments ==
    {NotXml, Document(TRUE, Some("Inv1"), Some("SN1"), <<VoltageElement>>)}

\* struct Measurement: typ is required, value and unit are Option<String>
Measurement(el) == [value |-> el.Value, typ |-> el.Type.val, unit |-> el.Unit]

\* serde_xml_rs::from_str::<Root>: every non-Option field must be present
from_str(doc) ==
    IF /\ doc.wellformed
       /\ IsSome(doc.Name)
       /\ IsSome(doc.Serial)
       /\ doc.Measurement # <<>>
       /\ \A i \in 1..Len(doc.Measurement) : IsSome(doc.Measurement[i].Type)
    THEN Some([name |-> doc.Name.val,
               serial |-> doc.Serial.val,
               measurement |-> [i \in 1..Len(doc.Measurement) |-> Measurement(doc.Measurement[i])]])
    ELSE None

\* ------------------------------------------------------------------------
\* Translation of one measurement
\* ------------------------------------------------------------------------

\* measurement.unit.as_deref().unwrap_or("")
UnitStr(m) == IF IsSome(m.unit) THEN m.unit.val ELSE <<>>

\* format!("inverter/{}/{}", device_serial, measurement_name)
Topic(device_serial, measurement_name) ==
    "inverter/" \o device_serial \o "/" \o measurement_name

\* value and unit put together without the space
PayloadGlued(value_str, unit_str) == Trim(value_str \o unit_str)

\* format!("{} {}", value_str, unit_str).trim().to_string()
Payload(value_str, unit_str) == Trim(value_str \o <<" ">> \o unit_str)

\* DataPoint::builder("inverter_data").tag(..).tag(..).field("value", v)[.tag("unit", ..)]
BuildPoint(device_serial, m, value) ==
    Some([measurement |-> "inverter_data",
          serial |-> device_serial,
          type |-> m.typ,
          unit |-> m.unit,
          value |-> value])

\* ------------------------------------------------------------------------
\* State
\* ------------------------------------------------------------------------

VARIABLES
    pc,                   \* position of main: "start", the loop's await points, "exited"
    config,               \* what the configuration file holds
    result,               \* what main returned: None while it runs
    mqtt_client_option,   \* TRUE: Some(mqtt_client)
    influx_client_option, \* TRUE: Some(influx_client)
    error_count,
    resp,                 \* the response of this cycle's request
    xml_str,              \* the body text of this cycle
    root,                 \* the decoded reading of this cycle
    idx,                  \* position of the for loop in root.device.measurements
    influx_points,        \* the batch of this cycle
    eventloop,            \* the spawned task: "none", "poll", "sleep", "dropped"
    connected,            \* the event loop has a session with the broker
    requests,             \* requests waiting in the channel of capacity RequestCap
    log,                  \* what this cycle did to the outside, in order
    hist                  \* one entry per finished cycle: outcome and counter

vars ==
    <<pc, config, result, mqtt_client_option, influx_client_option, error_count,
      resp, xml_str, root, idx, influx_points, eventloop, connected, requests,
      log, hist>>

cycleVars == <<resp, xml_str, root, idx, influx_points>>

transportVars == <<eventloop, connected, requests>>

clientVars == <<mqtt_client_option, influx_client_option>>

\* seconds slept between two cycles in the explored configurations
PollIntervalSecs == 30

\* configuration files: absent, unparsable, or a Config with max_errors in maxes
ConfigsWith(maxes) ==
    {[file |-> f, max_errors |-> 0, poll_interval_secs |-> PollIntervalSecs,
      mqtt |-> FALSE, influxdb |-> FALSE] : f \in {"missing", "invalid"}}
    \cup
    {[file |-> "ok", max_errors |-> n, poll_interval_secs |-> PollIntervalSecs,
      mqtt |-> m, influxdb |-> i] :
        n \in maxes, m \in BOOLEAN, i \in BOOLEAN}

\* the configurations of the escalation specification
Configs == ConfigsWith(0..MaxErrorsBound)

\* the configurations of the dispatch specification
DispatchConfigs == ConfigsWith({1, MaxErrorsBound})

InitWith(configs) ==
    /\ pc = "start"
    /\ config \in configs
    /\ result = None
    /\ mqtt_client_option = FALSE
    /\ influx_client_option = FALSE
    /\ error_count = 0
    /\ resp = None
    /\ xml_str = None
    /\ root = None
    /\ idx = 0
    /\ influx_points = <<>>
    /\ eventloop = "none"
    /\ connected = FALSE
    /\ requests = 0
    /\ log = <<>>
    /\ hist = <<>>

\* ------------------------------------------------------------------------
\* What a cycle did, read off its log
\* ------------------------------------------------------------------------

Ops(l, op) == {k \in 1..Len(l) : l[k].op = op}

Failed(l, op) == \E k \in Ops(l, op) : ~l[k].ok

Outcome(l) ==
    IF Failed(l, "fetch") THEN "fetch-error"
    ELSE IF Failed(l, "text") THEN "body-read-error"
    ELSE IF Failed(l, "decode") THEN "decode-error"
    ELSE IF Failed(l, "write_ret") THEN "sink-write-error"
    ELSE "success"

\* ------------------------------------------------------------------------
\* Startup (main, up to the loop)
\* ------------------------------------------------------------------------

Exit(err, count) ==
    /\ pc' = "exited"
    /\ result' = Some([err |-> err, count |-> count])
    /\ eventloop' = IF eventloop = "none" THEN "none" ELSE "dropped"

\* the startup check left out
NoSinkUnchecked(mqtt, influx) == FALSE

\* if mqtt_client_option.is_none() && influx_client_option.is_none()
NoSink(mqtt, influx) == ~mqtt /\ ~influx

Startup ==
    /\ pc = "start"
    /\ IF config.file = "missing" THEN
            /\ Exit("Could not find config.toml", 0)
            /\ UNCHANGED clientVars
       ELSE IF config.file = "invalid" THEN
            /\ Exit("Failed to parse config.toml", 0)
            /\ UNCHANGED clientVars
       ELSE
            /\ mqtt_client_option' = config.mqtt
            /\ influx_client_option' = config.influxdb
            /\ IF NoSink(config.mqtt, config.influxdb) THEN
                    Exit("No valid MQTT or InfluxDB configuration found", 0)
               ELSE
                    /\ pc' = "fetch"
                    /\ result' = None
                    /\ eventloop' = IF config.mqtt THEN "poll" ELSE "none"
    /\ UNCHANGED <<config, error_count, cycleVars, connected, requests, log, hist>>

\* ------------------------------------------------------------------------
\* The spawned task: loop { if let Err(e) = eventloop.poll().await { sleep 1s } }
\* ------------------------------------------------------------------------

\* the task leaving its loop on an error
AfterPollErrorReturn == "returned"

\* if let Err(e) = eventloop.poll().await { eprintln!(..); sleep(1s).await }
AfterPollError == "sleep"

EventloopPoll ==
    /\ eventloop = "poll"
    /\ \/ /\ ~connected                  \* connects: Ok(ConnAck)
          /\ connected' = TRUE
          /\ UNCHANGED <<eventloop, requests>>
       \/ /\ ~connected                  \* the broker is unreachable: Err
          /\ eventloop' = AfterPollError
          /\ UNCHANGED <<connected, requests>>
       \/ /\ connected                   \* takes a request and sends it: Ok
          /\ requests > 0
          /\ requests' = requests - 1
          /\ UNCHANGED <<eventloop, connected>>
       \/ /\ connected                   \* the session breaks: Err
          /\ connected' = FALSE
          /\ eventloop' = AfterPollError
          /\ UNCHANGED requests
    /\ UNCHANGED <<pc, config, result, clientVars, error_count, cycleVars, log, hist>>

EventloopSleep ==
    /\ eventloop = "sleep"
    /\ eventloop' = "poll"
    /\ UNCHANGED <<pc, config, result, clientVars, error_count, cycleVars,
                   connected, requests, log, hist>>

\* ------------------------------------------------------------------------
\* The loop of main
\* ------------------------------------------------------------------------

Logged(ev) == log' = Append(log, ev)

\* the counter set to 1 instead of incremented
CountAfterFailureSet(count) == 1

\* the counter incremented twice
CountAfterFailureTwice(count) == count + 2

\* error_count += 1
CountAfterFailure(count) == count + 1

\* the reset left out
CountAfterDecodeKept(count) == count

\* error_count = 0
CountAfterDecode(count) == 0

\* http_client.get(&config.inverter_url).send().await
Fetch(maxCycles) ==
    /\ pc = "fetch"
    /\ Len(hist) < maxCycles
    /\ \/ \E st \in Statuses :          \* Ok(resp), whatever the status
            /\ resp' = Some([status |-> st])
            /\ log' = <<[op |-> "fetch", ok |-> TRUE, status |-> st]>>
            /\ pc' = "text"
            /\ UNCHANGED error_count
       \/ /\ error_count' = CountAfterFailure(error_count)   \* Err(e): no connection, timeout
          /\ log' = <<[op |-> "fetch", ok |-> FALSE, status |-> 0]>>
          /\ pc' = "check"
          /\ UNCHANGED resp
    /\ UNCHANGED <<config, result, clientVars, xml_str, root, idx, influx_points,
                   transportVars, hist>>

\* resp.text().await
ReadBody(docs) ==
    /\ pc = "text"
    /\ \/ \E d \in docs :               \* Ok(xml_str)
            /\ xml_str' = Some(d)
            /\ Logged([op |-> "text", ok |-> TRUE])
            /\ pc' = "decode"
       \/ /\ Logged([op |-> "text", ok |-> FALSE])   \* Err(e): only printed
          /\ pc' = "check"
          /\ UNCHANGED xml_str
    /\ UNCHANGED <<config, result, clientVars, error_count, resp, root, idx,
                   influx_points, transportVars, hist>>

\* match from_str::<Root>(&xml_str)
Decode ==
    /\ pc = "decode"
    /\ LET decoded == from_str(xml_str.val)
       IN  IF IsSome(decoded) THEN
                /\ error_count' = CountAfterDecode(error_count)
                /\ root' = decoded
                /\ influx_points' = <<>>
                /\ idx' = 1
                /\ Logged([op |-> "decode", ok |-> TRUE])
                /\ pc' = "measure"
           ELSE
                /\ error_count' = CountAfterFailure(error_count)
                /\ Logged([op |-> "decode", ok |-> FALSE])
                /\ pc' = "check"
                /\ UNCHANGED <<root, influx_points, idx>>
    /\ UNCHANGED <<config, result, clientVars, resp, xml_str, transportVars, hist>>

Measurements == root.val.measurement

\* if let Some(value_str) = &measurement.value
HasValue(m) == IsSome(m.value)

\* publishing without looking at the option
PublishAlways == TRUE

\* if let Some(mqtt_client) = &mqtt_client_option
PublishEnabled == mqtt_client_option

\* if let Some(_influx_client) = &influx_client_option
BatchEnabled == influx_client_option

\* the head of one iteration of the for loop, up to the publish call
BeginMeasurement ==
    /\ pc = "measure"
    /\ idx <= Len(Measurements)
    /\ LET m == Measurements[idx]
       IN  IF ~HasValue(m) THEN
                /\ idx' = idx + 1
                /\ UNCHANGED <<pc, log>>
           ELSE IF PublishEnabled THEN
                /\ Logged([op |-> "publish", i |-> idx,
                           topic |-> Topic(root.val.serial, m.typ),
                           payload |-> Payload(m.value.val, UnitStr(m))])
                /\ pc' = "publishing"
                /\ UNCHANGED idx
           ELSE
                /\ pc' = "point"
                /\ UNCHANGED <<idx, log>>
    /\ UNCHANGED <<config, result, clientVars, error_count, resp, xml_str, root,
                   influx_points, transportVars, hist>>

\* a publish error that leaves the dispatching
AfterPublishAbort(ok) == IF ok THEN "point" ELSE "check"

\* where the iteration goes on after the publish call returned
AfterPublish(ok) == "point"

\* a publish error counted like a cycle failure
CountAfterPublishCounted(count, ok) == IF ok THEN count ELSE count + 1

\* the Err arm of the publish only prints
CountAfterPublish(count, ok) == count

\* mqtt_client.publish(..).await returns: the request is in the channel, or Err
PublishReturn ==
    /\ pc = "publishing"
    /\ \E ok \in BOOLEAN :
          /\ IF ok THEN requests < RequestCap /\ requests' = requests + 1
                   ELSE UNCHANGED requests
          /\ Logged([op |-> "publish_ret", i |-> idx, ok |-> ok])
          /\ pc' = AfterPublish(ok)
          /\ error_count' = CountAfterPublish(error_count, ok)
    /\ UNCHANGED <<config, result, clientVars, cycleVars, eventloop, connected, hist>>

\* the point put in front of the batch
PushPointFront(points, point) == <<point>> \o points

\* influx_points.push(point)
PushPoint(points, point) == Append(points, point)

\* the rest of the iteration: the InfluxDB point
PreparePoint ==
    /\ pc = "point"
    /\ LET m     == Measurements[idx]
           value == parse_value(m.value.val)
           point == BuildPoint(root.val.serial, m, value.val)
       IN  influx_points' =
               IF BatchEnabled /\ IsSome(value) /\ IsSome(point)
               THEN PushPoint(influx_points, point.val)
               ELSE influx_points
    /\ idx' = idx + 1
    /\ pc' = "measure"
    /\ UNCHANGED <<config, result, clientVars, error_count, resp, xml_str, root,
                   transportVars, log, hist>>

\* the write issued whatever the batch holds
ShouldWriteAlways(points) == TRUE

\* if !influx_points.is_empty()
ShouldWrite(points) == points # <<>>

\* after the for loop: influx_client.write(bucket, points_stream) is called
EndMeasurements ==
    /\ pc = "measure"
    /\ idx > Len(Measurements)
    /\ IF BatchEnabled /\ ShouldWrite(influx_points) THEN
            /\ Logged([op |-> "write", points |-> influx_points])
            /\ pc' = "writing"
       ELSE
            /\ pc' = "check"
            /\ UNCHANGED log
    /\ UNCHANGED <<config, result, clientVars, error_count, cycleVars,
                   transportVars, hist>>

\* influx_client.write(..).await returns
WriteReturn ==
    /\ pc = "writing"
    /\ \E ok \in BOOLEAN :
          /\ error_count' = IF ok THEN error_count ELSE CountAfterFailure(error_count)
          /\ Logged([op |-> "write_ret", ok |-> ok])
    /\ pc' = "check"
    /\ UNCHANGED <<config, result, clientVars, cycleVars, transportVars, hist>>

\* the comparison as a strict one
ThresholdReachedStrict(count, max_errors) == count > max_errors

\* if error_count >= config.max_errors
ThresholdReached(count, max_errors) == count >= max_errors

\* a wait that grows with the counter
SleepSecsBackoff(cfg, count) == cfg.poll_interval_secs * (count + 1)

\* Duration::from_secs(config.poll_interval_secs)
SleepSecs(cfg, count) == cfg.poll_interval_secs

\* the end of the loop body: return Err(..) or sleep(poll_interval_secs)
Check ==
    /\ pc = "check"
    /\ LET stop == ThresholdReached(error_count, config.max_errors)
       IN  /\ hist' = Append(hist, [outcome |-> Outcome(log),
                                    count |-> error_count,
                                    stopped |-> stop])
           /\ IF stop THEN
                   /\ Exit("Too many errors", error_count)
                   /\ UNCHANGED log
              ELSE
                   /\ Logged([op |-> "sleep", secs |-> SleepSecs(config, error_count)])
                   /\ pc' = "sleep"
                   /\ UNCHANGED <<result, eventloop>>
    /\ resp' = None
    /\ xml_str' = None
    /\ root' = None
    /\ idx' = 0
    /\ influx_points' = <<>>
    /\ UNCHANGED <<config, clientVars, error_count, connected, requests>>

\* sleep(..).await returns: the next iteration of the loop
Wake ==
    /\ pc = "sleep"
    /\ pc' = "fetch"
    /\ UNCHANGED <<config, result, clientVars, error_count, cycleVars,
                   transportVars, log, hist>>

\* ------------------------------------------------------------------------
\* Specifications
\* ------------------------------------------------------------------------

Init == InitWith(DispatchConfigs)

InitEscalation == InitWith(Configs)

\* every document, few cycles: what one cycle does to the sinks
Next ==
    \/ Startup
    \/ EventloopPoll
    \/ EventloopSleep
    \/ Fetch(MaxDispatchCycles)
    \/ ReadBody(AllDocuments)
    \/ Decode
    \/ BeginMeasurement
    \/ PublishReturn
    \/ PreparePoint
    \/ EndMeasurements
    \/ WriteReturn
    \/ Check
    \/ Wake

Spec == Init /\ [][Next]_vars

\* few documents, more cycles: how the counter moves from cycle to cycle
NextEscalation ==
    \/ Startup
    \/ EventloopPoll
    \/ EventloopSleep
    \/ Fetch(MaxCycles)
    \/ ReadBody(FewDocuments)
    \/ Decode
    \/ BeginMeasurement
    \/ PublishReturn
    \/ PreparePoint
    \/ EndMeasurements
    \/ WriteReturn
    \/ Check
    \/ Wake

SpecEscalation == InitEscalation /\ [][NextEscalation]_vars

\* ------------------------------------------------------------------------
\* Types
\* ------------------------------------------------------------------------

TypeOK ==
    /\ pc \in {"start", "fetch", "text", "decode", "measure", "publishing", "point",
               "writing", "check", "sleep", "exited"}
    /\ config \in Configs
    /\ mqtt_client_option \in BOOLEAN
    /\ influx_client_option \in BOOLEAN
    /\ error_count \in Nat
    /\ eventloop \in {"none", "poll", "sleep", "dropped"}
    /\ connected \in BOOLEAN
    /\ requests \in 0..RequestCap

\* ------------------------------------------------------------------------
\* Properties: escalation of the error counter (SpecEscalation)
\* ------------------------------------------------------------------------

Stopped == pc = "exited" /\ IsSome(result) /\ result.val.err = "Too many errors"

\* the counter when cycle k began
CountBefore(k) == IF k = 1 THEN 0 ELSE hist[k - 1].count

\* cycles i..j all ended with the given outcome, and cycle i began at counter 0
RunOf(kind, i, j) ==
    /\ i <= j
    /\ CountBefore(i) = 0
    /\ \A k \in i..j : hist[k].outcome = kind

\* a run of n cycles of that outcome counts to n and stops exactly at max_errors
Escalates(kind) ==
    \A i, j \in 1..Len(hist) :
        RunOf(kind, i, j) =>
            /\ hist[j].count = j - i + 1
            /\ hist[j].stopped <=> (j - i + 1 = config.max_errors)
            /\ hist[j].stopped => (j = Len(hist) /\ Stopped /\ result.val.count = config.max_errors)

C1_CountsFetchFailures == config.max_errors >= 1 => Escalates("fetch-error")

\* C1: with max_errors = N >= 1 and a counter of 0, N consecutive cycles that
\* fail at the fetch stage stop the loop at the end of the N-th cycle and of no
\* earlier one; once main has returned nothing changes any more (no fetch, no
\* publish, no batch write, no sleep).
C1_FetchEscalation ==
    /\ []C1_CountsFetchFailures
    /\ [][pc = "exited" => UNCHANGED vars]_vars

C1_Witness ==
    /\ Stopped
    /\ config.max_errors = 3
    /\ Len(hist) = 3
    /\ RunOf("fetch-error", 1, 3)

IsFailure(k) == hist[k].outcome # "success"

\* C2: a clean cycle sets the counter to 0; from a counter of 0 the outcomes
\* failure, failure, success give the counter values 1, 2, 0, and with
\* max_errors = 3 the outcomes failure, success, failure, failure give
\* 1, 0, 1, 2 without stopping.
C2_ResetScenarios ==
    /\ \A k \in 1..Len(hist) : hist[k].outcome = "success" => hist[k].count = 0
    /\ \A i \in 1..Len(hist) :
          (/\ i + 2 <= Len(hist)
           /\ CountBefore(i) = 0
           /\ IsFailure(i) /\ IsFailure(i + 1) /\ ~IsFailure(i + 2))
          => <<hist[i].count, hist[i + 1].count, hist[i + 2].count>> = <<1, 2, 0>>
    /\ \A i \in 1..Len(hist) :
          (/\ i + 3 <= Len(hist)
           /\ config.max_errors = 3
           /\ CountBefore(i) = 0
           /\ IsFailure(i) /\ ~IsFailure(i + 1) /\ IsFailure(i + 2) /\ IsFailure(i + 3))
          => /\ <<hist[i].count, hist[i + 1].count, hist[i + 2].count, hist[i + 3].count>>
                    = <<1, 0, 1, 2>>
             /\ ~hist[i + 3].stopped

\* C3: a cycle whose request succeeds and whose body cannot be read as text
\* leaves the counter at its value before the cycle plus exactly 1.
C3_BodyReadCounts ==
    \A k \in 1..Len(hist) :
        hist[k].outcome = "body-read-error" => hist[k].count = CountBefore(k) + 1

\* C4: with max_errors = N >= 1, N consecutive cycles that fetch and decode and
\* whose batch write fails drive the counter to N and stop the loop.
C4_WriteEscalation == config.max_errors >= 1 => Escalates("sink-write-error")

\* ------------------------------------------------------------------------
\* Properties: startup and the sinks of one cycle (Spec)
\* ------------------------------------------------------------------------

ConfigError ==
    /\ pc = "exited"
    /\ result = Some([err |-> "No valid MQTT or InfluxDB configuration found", count |-> 0])

\* C5: a configuration with neither the mqtt nor the influxdb block ends main
\* with a configuration error before the loop: nothing was fetched, published,
\* written or slept, and no event loop task was spawned.
C5_NoSinkNoLoop ==
    (config.file = "ok" /\ ~config.mqtt /\ ~config.influxdb /\ pc # "start") =>
        /\ ConfigError
        /\ log = <<>>
        /\ hist = <<>>
        /\ eventloop = "none"
        /\ requests = 0

C5_Witness == ConfigError /\ config.file = "ok" /\ ~config.mqtt /\ ~config.influxdb

C6_OnlyConfiguredSinks ==
    \A k \in 1..Len(log) :
        /\ log[k].op = "publish" => config.mqtt
        /\ log[k].op = "write" => config.influxdb

\* C6: a publish call occurs only if the mqtt block was present at startup, a
\* batch write only if the influxdb block was; once the clients are set up no
\* step (whatever a cycle's outcome) changes which of them exist.
C6_SinksFixedAtLoad ==
    /\ []C6_OnlyConfiguredSinks
    /\ [][pc # "start" => UNCHANGED clientVars]_vars

\* the second cycle writes again after the first cycle's write failed, and
\* still publishes nothing
C6_Witness ==
    /\ ~config.mqtt
    /\ Len(hist) = 1
    /\ hist[1].outcome = "sink-write-error"
    /\ Ops(log, "write") # {}
    /\ pc = "check"

\* the dispatching of this cycle is over
Dispatched == pc = "check" /\ IsSome(root)

\* the samples of the reading that carry a value, and those whose value is a number
WithValue == {j \in 1..Len(Measurements) : Measurements[j].value # None}

Numeric == {j \in WithValue : parse_value(Measurements[j].value.val) # None}

PointOf(j) ==
    [measurement |-> "inverter_data",
     serial |-> root.val.serial,
     type |-> Measurements[j].typ,
     unit |-> Measurements[j].unit,
     value |-> parse_value(Measurements[j].value.val).val]

Elems(q) == {q[k] : k \in 1..Len(q)}

PublishedSamples == {log[k].i : k \in Ops(log, "publish")}

FailedPublishes == {k \in Ops(log, "publish_ret") : ~log[k].ok}

\* C7: at the end of a decoded cycle, whatever publish calls failed, every
\* sample with a value had its publish attempt (if the publish sink is
\* enabled), every numeric sample has its point in the batch and a non-empty
\* batch was handed to the write call (if the time-series sink is enabled).
C7_SinkFailuresIsolated ==
    Dispatched =>
        /\ config.mqtt => PublishedSamples = WithValue
        /\ config.influxdb =>
              /\ \A j \in Numeric : PointOf(j) \in Elems(influx_points)
              /\ Numeric # {} =>
                    \E k \in Ops(log, "write") : log[k].points = influx_points

\* the publish of the first sample failed; the second sample was published and
\* is in the batch that was written
C7_Witness ==
    /\ Dispatched
    /\ Len(Measurements) = 2
    /\ \E k \in FailedPublishes : log[k].i = 1
    /\ 2 \in PublishedSamples
    /\ \E k \in Ops(log, "write") : Len(log[k].points) = 2

\* C8: a cycle issues at most one batch write; it is issued after the last
\* sample was processed, never with an empty batch, never in a cycle whose
\* fetch, body read or decode failed, and not at all when no sample of the
\* reading has a numeric value.
C8_OneWritePerCycle ==
    /\ Cardinality(Ops(log, "write")) <= 1
    /\ \A k \in Ops(log, "write") :
          /\ log[k].points # <<>>
          /\ \E d \in Ops(log, "decode") : d < k /\ log[d].ok
          /\ \A n \in (k + 1)..Len(log) : log[n].op \in {"write_ret", "sleep"}
          /\ IsSome(root) => idx = Len(Measurements) + 1
    /\ (Failed(log, "fetch") \/ Failed(log, "text") \/ Failed(log, "decode"))
          => Ops(log, "write") = {}
    /\ (Dispatched /\ Numeric = {}) => Ops(log, "write") = {}

\* two samples, one write of two points
C8_Witness ==
    /\ Dispatched
    /\ Len(Measurements) = 2
    /\ Cardinality(Ops(log, "write")) = 1
    /\ \E k \in Ops(log, "write") : Len(log[k].points) = 2

\* the points are those of samples taken in increasing position
InDocumentOrder(points) ==
    \E f \in [1..Len(points) -> 1..Len(Measurements)] :
        /\ \A a, b \in 1..Len(points) : a < b => f[a] < f[b]
        /\ \A a \in 1..Len(points) : f[a] \in Numeric /\ points[a] = PointOf(f[a])

\* C9: within a cycle the publish calls are issued in document order, each one
\* has returned before anything else is called, all of them have returned
\* before the batch write is issued, and the batch holds its points in
\* document order.
C9_PublishThenWriteInOrder ==
    /\ \A a, b \in Ops(log, "publish") : a < b => log[a].i < log[b].i
    /\ \A a \in Ops(log, "publish") :
          IF a = Len(log) THEN pc = "publishing"
          ELSE log[a + 1].op = "publish_ret" /\ log[a + 1].i = log[a].i
    /\ \A w \in Ops(log, "write") : \A a \in Ops(log, "publish") : a + 1 < w
    /\ IsSome(root) => InDocumentOrder(influx_points)
    /\ \A w \in Ops(log, "write") : IsSome(root) => InDocumentOrder(log[w].points)

\* two different numeric samples, both published, the write issued
C9_Witness ==
    /\ pc = "writing"
    /\ Cardinality(Ops(log, "publish_ret")) = 2
    /\ Len(influx_points) = 2
    /\ influx_points[1] # influx_points[2]

IsPublish(ev) == ev.op = "publish"

HasValueAt(j) == Measurements[j].value # None

IsNumericAt(j) == j \in Numeric

Positions == [j \in 1..Len(Measurements) |-> j]

ExampleReading ==
    <<[value |-> Some(<<"2", "3", "0", ".", "5">>), typ |-> "Voltage_L1", unit |-> Some(<<"V">>)],
      [value |-> None, typ |-> "Status", unit |-> None]>>

NotANumberReading ==
    <<[value |-> Some(<<"n", "/", "a">>), typ |-> "Mode", unit |-> None]>>

ExamplePublish ==
    [op |-> "publish", i |-> 1, topic |-> "inverter/SN1/Voltage_L1",
     payload |-> <<"2", "3", "0", ".", "5", " ", "V">>]

ExamplePoint ==
    [measurement |-> "inverter_data", serial |-> "SN1", type |-> "Voltage_L1",
     unit |-> Some(<<"V">>),
     value |-> [kind |-> "finite", neg |-> FALSE, m |-> 2305, e |-> -1]]

\* C10: with both sinks enabled, at the end of a decoded cycle the publish calls
\* are, in order, those of the samples that carry a value, and the batch holds,
\* in order, one point for each sample whose value is a number; the reading
\* (Voltage_L1, 230.5, V), (Status, no value) gives one publish call and one
\* point, and a sample with the value n/a gives a publish call and no point.
C10_OutputsMatchSamples ==
    (Dispatched /\ config.mqtt /\ config.influxdb) =>
        LET published == SelectSeq(log, IsPublish)
            expected  == SelectSeq(Positions, HasValueAt)
            numeric   == SelectSeq(Positions, IsNumericAt)
        IN  /\ Len(published) = Len(expected)
            /\ \A k \in 1..Len(published) : published[k].i = expected[k]
            /\ Len(influx_points) = Len(numeric)
            /\ \A k \in 1..Len(numeric) : influx_points[k] = PointOf(numeric[k])
            /\ Measurements = ExampleReading =>
                  published = <<ExamplePublish>> /\ influx_points = <<ExamplePoint>>
            /\ Measurements = NotANumberReading =>
                  Len(published) = 1 /\ influx_points = <<>>

C10_Witness ==
    /\ Dispatched
    /\ config.mqtt /\ config.influxdb
    /\ Measurements = ExampleReading
    /\ SelectSeq(log, IsPublish) = <<ExamplePublish>>
    /\ influx_points = <<ExamplePoint>>

\* ------------------------------------------------------------------------
\* Properties: the rhythm of the loop and the frame of the counter
\* ------------------------------------------------------------------------

LastEvent(l) == l[Len(l)]

\* the counter when the cycle now running began
CountAtStart == CountBefore(Len(hist) + 1)

C11_SleptOnce ==
    /\ (pc \in {"sleep", "fetch"} /\ hist # <<>>) =>
          /\ Cardinality(Ops(log, "sleep")) = 1
          /\ LastEvent(log) = [op |-> "sleep", secs |-> config.poll_interval_secs]
    /\ pc \notin {"sleep", "fetch"} => Ops(log, "sleep") = {}
    /\ Cardinality(Ops(log, "fetch")) <= 1

\* C11: after every cycle that does not stop the process, whatever its outcome,
\* the loop sleeps exactly once, for poll_interval_secs, before the next fetch
\* is issued; the duration does not depend on the counter or the outcome.
C11_SleepBetweenFetches ==
    /\ []C11_SleptOnce
    /\ [][(pc = "fetch" /\ pc' # "fetch" /\ hist # <<>>) => LastEvent(log).op = "sleep"]_vars
    /\ [][(pc = "sleep" /\ pc' # "sleep") => (pc' = "fetch" /\ log' = log)]_vars

\* the third fetch is due after a fetch failure and a failed batch write
C11_Witness ==
    /\ pc = "fetch"
    /\ Len(hist) = 2
    /\ hist[1].outcome = "fetch-error"
    /\ hist[2].outcome = "sink-write-error"
    /\ LastEvent(log).op = "sleep"

\* C12: for every max_errors the u32 field admits, the loop stops only at the
\* end of a cycle that ended in a failure; a run of clean cycles never stops.
C12_StopsOnlyOnFailure ==
    \A k \in 1..Len(hist) : hist[k].stopped => hist[k].outcome # "success"

\* C13: a response with a non-success status makes the cycle a fetch failure:
\* the body is neither read nor decoded, nothing is published or written, and
\* the counter is its value at the start of the cycle plus 1.
C13_StatusIsFetchError ==
    (log # <<>> /\ log[1].op = "fetch" /\ log[1].ok /\ log[1].status \notin 200..299) =>
        /\ \A k \in 2..Len(log) : log[k].op = "sleep"
        /\ pc = "check" => error_count = CountAtStart + 1

C14_Step ==
    /\ error_count' > error_count =>
          /\ error_count' = error_count + 1
          /\ log' # log
          /\ LastEvent(log').op \in {"fetch", "text", "decode", "write_ret"}
          /\ ~LastEvent(log').ok
    /\ (pc = "publishing" /\ pc' # pc) =>
          error_count' = error_count /\ pc' = "point" /\ result' = None
    /\ (pc = "point" /\ pc' # pc) =>
          error_count' = error_count /\ pc' = "measure" /\ idx' = idx + 1 /\ result' = None
    /\ (pc = "measure" /\ (pc' # pc \/ idx' # idx)) =>
          /\ error_count' = error_count
          /\ result' = None
          /\ idx <= Len(Measurements) => pc' \in {"measure", "publishing", "point"}

\* C14: the counter goes up only by 1 and only in a step that is a failed
\* fetch, body read, decode or batch write; a failed publish, a sample without
\* a value and a sample whose value is not a number leave the counter as it is,
\* let the for loop go on and never end main.
C14_OnlyCycleFaultsCount == [][C14_Step]_vars

\* a cycle with a skipped sample, a failed publish and a non-numeric value
\* ends with the counter at 0
C14_Witness ==
    /\ Dispatched
    /\ config.influxdb
    /\ FailedPublishes # {}
    /\ WithValue # 1..Len(Measurements)
    /\ Numeric # WithValue
    /\ error_count = 0

\* a step of the spawned task
TaskStep ==
    \/ connected' # connected
    \/ requests' < requests
    \/ eventloop \in {"poll", "sleep"} /\ eventloop' # eventloop /\ eventloop' # "dropped"

C15_TaskAlive ==
    (config.file = "ok" /\ config.mqtt /\ pc \notin {"start", "exited"}) =>
        eventloop \in {"poll", "sleep"}

\* C15: while main runs with the mqtt block configured the spawned task is in
\* its loop; an error of poll() leads to the wait and the wait back to poll();
\* no step of the task changes the counter, main's position or main's result.
C15_TaskRunsAndKeepsOut ==
    /\ []C15_TaskAlive
    /\ [][TaskStep => UNCHANGED <<pc, result, error_count, clientVars, cycleVars, log, hist>>]_vars
    /\ [][(connected /\ ~connected') => eventloop' = "sleep"]_vars
    /\ [][(eventloop = "sleep" /\ eventloop' # "sleep") =>
              (eventloop' = "poll" \/ (eventloop' = "dropped" /\ pc' = "exited"))]_vars

\* the task waits after an error while main is in its third cycle
C15_Witness ==
    /\ eventloop = "sleep"
    /\ ~connected
    /\ requests = 2
    /\ Len(hist) = 2
    /\ pc = "text"

\* C17: a cycle that fails at the fetch or at the decode has published and
\* written nothing and leaves the counter at its previous value plus 1.
C17_FailedCycleDoesNothing ==
    /\ (pc = "check" /\ (Failed(log, "fetch") \/ Failed(log, "decode"))) =>
          /\ Ops(log, "publish") = {}
          /\ Ops(log, "write") = {}
          /\ error_count = CountAtStart + 1
    /\ \A k \in 1..Len(hist) :
          hist[k].outcome \in {"fetch-error", "decode-error"} =>
              hist[k].count = CountBefore(k) + 1

\* the decode fails in the second cycle, after a first failure
C17_Witness ==
    /\ pc = "check"
    /\ Failed(log, "decode")
    /\ Len(hist) = 1
    /\ hist[1].count = 1
    /\ error_count = 2

\* C19: with max_errors >= 1 the counter grows by at most 1 per cycle, is
\* below max_errors whenever a cycle starts and never above it, and equals
\* max_errors (as does the count in the message) when the loop stops.
C19_CounterBounded ==
    (config.file = "ok" /\ config.max_errors >= 1) =>
        /\ error_count \in 0..config.max_errors
        /\ pc \in {"fetch", "sleep"} => error_count < config.max_errors
        /\ \A k \in 1..Len(hist) : hist[k].count <= CountBefore(k) + 1
        /\ Stopped => (error_count = config.max_errors /\ result.val.count = config.max_errors)

C19_Witness ==
    /\ Stopped
    /\ config.max_errors = 2
    /\ result.val.count = 2
    /\ Len(hist) = 2

\* C20: at the end of a cycle whose decode succeeded the counter is 0 or 1,
\* whatever it was before: 1 exactly when the time-series sink is enabled, the
\* batch was not empty and its write failed.
C20_ZeroOrOneAfterDecode ==
    (pc = "check" /\ IsSome(root)) =>
        /\ error_count \in {0, 1}
        /\ error_count = 1 <=>
              (config.influxdb /\ influx_points # <<>> /\ Failed(log, "write_ret"))

\* two failures, then a decoded cycle whose write fails: the counter is 1
C20_Witness ==
    /\ pc = "check"
    /\ IsSome(root)
    /\ Len(hist) = 2
    /\ hist[2].count = 2
    /\ error_count = 1

\* ------------------------------------------------------------------------
\* Properties: the payload of a publish call (SpecPayload)
\* ------------------------------------------------------------------------

\* longest Value attribute explored by the payload specification
MaxValueLen == 3

\* poll cycles explored by the payload specification
MaxPayloadCycles == 1

PayloadAlphabet == {"1", "a", " "}

ValueStrings == UNION {[1..n -> PayloadAlphabet] : n \in 0..MaxValueLen}

UnitStrings == {None, Some(<<"V">>), Some(<<>>), Some(<<"V", " ">>)}

\* documents with one measurement, every value string and unit
PayloadDocuments ==
    {Document(TRUE, Some("Inv1"), Some("SN1"), <<Element(Some("Mode"), Some(v), u)>>) :
        v \in ValueStrings, u \in UnitStrings}

\* configurations with the mqtt block
PayloadConfigs == {c \in ConfigsWith({MaxErrorsBound}) : c.file = "ok" /\ c.mqtt}

InitPayload == InitWith(PayloadConfigs)

NextPayload ==
    \/ Startup
    \/ EventloopPoll
    \/ EventloopSleep
    \/ Fetch(MaxPayloadCycles)
    \/ ReadBody(PayloadDocuments)
    \/ Decode
    \/ BeginMeasurement
    \/ PublishReturn
    \/ PreparePoint
    \/ EndMeasurements
    \/ WriteReturn
    \/ Check
    \/ Wake

SpecPayload == InitPayload /\ [][NextPayload]_vars

\* the raw value, then a space and the unit when there is a unit
RawPayload(m) ==
    m.value.val \o (IF m.unit # None THEN <<" ">> \o m.unit.val ELSE <<>>)

\* q occurs in s as a block
Occurs(q, s) == \E a \in 0..(Len(s) - Len(q)) : SubSeq(s, a + 1, a + Len(q)) = q

\* C18 as stated: every publish call has the topic inverter/{serial}/{kind} and
\* the payload made of the raw value and, when there is a unit, a space and
\* the unit; a raw value that is not a number is in the payload unmodified.
C18_PayloadIsRawValue ==
    IsSome(root) =>
        \A k \in Ops(log, "publish") :
            LET m == Measurements[log[k].i]
            IN  /\ log[k].topic = "inverter/" \o root.val.serial \o "/" \o m.typ
                /\ log[k].payload = RawPayload(m)
                /\ parse_value(m.value.val) = None => Occurs(m.value.val, log[k].payload)

\* neither empty nor beginning or ending with whitespace
Untrimmed(q) == q # <<>> /\ q[1] \notin Whitespace /\ q[Len(q)] \notin Whitespace

\* C18 amended: the payload is the raw value and, when there is a unit, a space
\* and the unit, whenever the value is not empty and has no whitespace at
\* either end and the unit, if present, is likewise; then a raw value that is
\* not a number (inner spaces included) is in the payload unmodified.
C18_PayloadOfUntrimmedValue ==
    IsSome(root) =>
        \A k \in Ops(log, "publish") :
            LET m == Measurements[log[k].i]
            IN  /\ log[k].topic = "inverter/" \o root.val.serial \o "/" \o m.typ
                /\ (Untrimmed(m.value.val) /\ (m.unit # None => Untrimmed(m.unit.val))) =>
                      /\ log[k].payload = RawPayload(m)
                      /\ Occurs(m.value.val, log[k].payload)

\* a value with an inner space that is not a number, published with its unit
C18_Witness ==
    /\ IsSome(root)
    /\ \E k \in Ops(log, "publish") :
          /\ Measurements[log[k].i].value = Some(<<"a", " ", "1">>)
          /\ log[k].payload = <<"a", " ", "1", " ", "V">>

\* ------------------------------------------------------------------------
\* Properties: progress of a cycle while the broker is away (SpecLive)
\* ------------------------------------------------------------------------

\* poll cycles explored by the liveness specification
MaxLiveCycles == 4

\* one document whose three measurements all carry a value
LiveDocuments ==
    {Document(TRUE, Some("Inv1"), Some("SN1"), <<VoltageElement, ModeElement, PowerElement>>)}

\* only the broker is configured: no InfluxDB section
LiveConfigs ==
    {c \in ConfigsWith({MaxErrorsBound}) : c.file = "ok" /\ c.mqtt /\ ~c.influxdb}

InitLive == InitWith(LiveConfigs)

NextLive ==
    \/ Startup
    \/ EventloopPoll
    \/ EventloopSleep
    \/ Fetch(MaxLiveCycles)
    \/ ReadBody(LiveDocuments)
    \/ Decode
    \/ BeginMeasurement
    \/ PublishReturn
    \/ PreparePoint
    \/ EndMeasurements
    \/ Check
    \/ Wake

\* the steps of main that need nothing but main itself or a bounded wait
MainStep ==
    \/ Startup
    \/ Fetch(MaxLiveCycles)
    \/ ReadBody(LiveDocuments)
    \/ Decode
    \/ BeginMeasurement
    \/ PreparePoint
    \/ EndMeasurements
    \/ Check
    \/ Wake

\* the publish call returns Ok once the channel has room
PublishAccepted == PublishReturn /\ requests' = requests + 1

\* main and the spawned task are both scheduled; the broker owes nothing
SpecLive ==
    /\ InitLive
    /\ [][NextLive]_vars
    /\ WF_vars(MainStep)
    /\ WF_vars(PublishAccepted)
    /\ WF_vars(EventloopPoll)
    /\ WF_vars(EventloopSleep)

InCycle == pc \in {"text", "decode", "measure", "publishing", "point", "writing", "check"}

\* C16: with the spawned task scheduled fairly, every cycle that has started
\* reaches the sleep or the stop, also while the session stays disconnected
\* and the channel of capacity 10 fills up.
C16_CycleCompletes == InCycle ~> (pc \in {"sleep", "exited"})

====
